---- MODULE Spec2Model ----
(***************************************************************************)
(* time-signal: DCF77/JJY/MSF/WWVB transmitter for Raspberry Pi.           *)
(*                                                                         *)
(* The model covers the control thread (main), the signal handler, the     *)
(* real-time worker thread (thread_time_signal / thread_carrier_only), the *)
(* clock generator programming of clock-control.c and the encoder of       *)
(* time-services.c.                                                        *)
(*                                                                         *)
(* Conventions                                                             *)
(*  - a uint64_t payload is the set of the indices of its set bits;        *)
(*  - a 32-bit hardware register is an integer, bit fields are taken with  *)
(*    \div and %;                                                          *)
(*  - wall-clock time is a pair (seconds since the epoch, milliseconds);   *)
(*  - floating point of start_clock is exact rational arithmetic (for      *)
(*    integer frequencies below 2^31 the truncations of the code coincide  *)
(*    with the exact floors).                                              *)
(***************************************************************************)
EXTENDS Integers, Sequences, FiniteSets, TLC

(***************************************************************************)
(* Program constants                                                       *)
(***************************************************************************)
MINUTES_IN_DAY == 1440
SECONDS_IN_DAY == 86400

CLK_CTL_BUSY == 128
CLK_CTL_ENAB == 16
CLK_CTL_MASH1 == 512
GPIO_FSEL_ALT0 == 4
GPIO4_SHIFT == 4096

DivMin == 2
DivMax == 4095
DivFracSteps == 1024

SanityYear == 2020

Services == {"DCF77", "JJY", "MSF", "WWVB"}

(***************************************************************************)
(* Bounds of the exploration                                               *)
(***************************************************************************)
MaxMinutes == 2

(***************************************************************************)
(* C integer arithmetic                                                    *)
(***************************************************************************)
Abs(x) == IF x < 0 THEN -x ELSE x

\* C division truncates toward zero, C remainder has the sign of the dividend
CDiv(a, b) == IF a >= 0 THEN a \div b ELSE -((-a) \div b)
CRem(a, b) == a - b * CDiv(a, b)

\* the bits of a small non-negative integer v, shifted left by k, as a uint64_t
Shl(v, k) == {i + k : i \in {j \in 0..30 : (v \div (2^j)) % 2 = 1}} \cap (0..63)

AllOnes == 0..63

(***************************************************************************)
(* libc calendar (gmtime_r / localtime_r)                                  *)
(***************************************************************************)
is_leap_year(year) == (year % 4 = 0) /\ (year % 100 # 0 \/ year % 400 = 0)

DaysFromCivil(y, m, d) ==
  LET yy  == IF m <= 2 THEN y - 1 ELSE y
      era == yy \div 400
      yoe == yy - era * 400
      mp  == IF m > 2 THEN m - 3 ELSE m + 9
      doy == (153 * mp + 2) \div 5 + d - 1
      doe == yoe * 365 + yoe \div 4 - yoe \div 100 + doy
  IN  era * 146097 + doe - 719468

\* struct tm of the instant t shifted by gmtoff seconds
BrokenDown(t, gmtoff, isdst) ==
  LET lt   == t + gmtoff
      days == lt \div 86400
      secs == lt % 86400
      z    == days + 719468
      era  == z \div 146097
      doe  == z - era * 146097
      yoe  == (doe - doe \div 1460 + doe \div 36524 - doe \div 146096) \div 365
      doy  == doe - (365 * yoe + yoe \div 4 - yoe \div 100)
      mp   == (5 * doy + 2) \div 153
      d    == doy - (153 * mp + 2) \div 5 + 1
      m    == IF mp < 10 THEN mp + 3 ELSE mp - 9
      y    == yoe + era * 400 + (IF m <= 2 THEN 1 ELSE 0)
  IN  [tm_sec    |-> secs % 60,
       tm_min    |-> (secs \div 60) % 60,
       tm_hour   |-> secs \div 3600,
       tm_mday   |-> d,
       tm_mon    |-> m - 1,
       tm_year   |-> y - 1900,
       tm_wday   |-> (days + 4) % 7,
       tm_yday   |-> days - DaysFromCivil(y, 1, 1),
       tm_isdst  |-> IF isdst THEN 1 ELSE 0,
       tm_gmtoff |-> gmtoff]

gmtime_r(t) == BrokenDown(t, 0, FALSE)

\* The host time zone: a standard offset and the instant from which
\* daylight-saving time is in effect (one transition in the window).
ZoneDst(zone, t) == t >= zone.dstFrom
ZoneOff(zone, t) == zone.stdoff + (IF ZoneDst(zone, t) THEN 3600 ELSE 0)

localtime_r(zone, t) == BrokenDown(t, ZoneOff(zone, t), ZoneDst(zone, t))

(***************************************************************************)
(* time-services.c                                                         *)
(***************************************************************************)
to_bcd(n) ==
  (CRem(CDiv(n, 100), 10) * 256) + (CRem(CDiv(n, 10), 10) * 16) + CRem(n, 10)

to_padded_bcd_Unpadded(n) ==
  (CRem(CDiv(n, 100), 10) * 256) + (CRem(CDiv(n, 10), 10) * 16) + CRem(n, 10)

to_padded_bcd(n) ==
  (CRem(CDiv(n, 100), 10) * 1024) + (CRem(CDiv(n, 10), 10) * 32) + CRem(n, 10)

even_parity_Inverted(data, startBit, endBit) ==
  (Cardinality(data \cap (startBit..endBit)) + 1) % 2

even_parity(data, startBit, endBit) ==
  Cardinality(data \cap (startBit..endBit)) % 2

odd_parity(data, startBit, endBit) ==
  IF even_parity(data, startBit, endBit) = 0 THEN 1 ELSE 0

B2I(b) == IF b THEN 1 ELSE 0

PrepareDCF77(zone, currentTime) ==
  LET tp == localtime_r(zone, currentTime + 60)
      b0 == Shl(B2I(tp.tm_isdst > 0), 17)
            \cup Shl(B2I(~(tp.tm_isdst > 0)), 18)
            \cup Shl(1, 20)
            \cup Shl(to_bcd(tp.tm_min), 21)
            \cup Shl(to_bcd(tp.tm_hour), 29)
            \cup Shl(to_bcd(tp.tm_mday), 36)
            \cup Shl(to_bcd(IF tp.tm_wday # 0 THEN tp.tm_wday ELSE 7), 42)
            \cup Shl(to_bcd(tp.tm_mon + 1), 45)
            \cup Shl(to_bcd(CRem(tp.tm_year, 100)), 50)
      b1 == b0 \cup Shl(even_parity(b0, 21, 27), 28)
      b2 == b1 \cup Shl(even_parity(b1, 29, 34), 35)
  IN  b2 \cup Shl(even_parity(b2, 36, 57), 58)

PrepareJJY(zone, currentTime) ==
  LET tp == localtime_r(zone, currentTime)
      b0 == Shl(to_padded_bcd(tp.tm_min), 59 - 8)
            \cup Shl(to_padded_bcd(tp.tm_hour), 59 - 18)
            \cup Shl(to_padded_bcd(tp.tm_yday + 1), 59 - 33)
            \cup Shl(to_bcd(CRem(tp.tm_year, 100)), 59 - 48)
            \cup Shl(to_bcd(tp.tm_wday), 59 - 52)
      b1 == b0 \cup Shl(even_parity(b0, 59 - 18, 59 - 12), 59 - 36)
  IN  b1 \cup Shl(even_parity(b1, 59 - 8, 59 - 1), 59 - 37)

PrepareMSF(zone, currentTime) ==
  LET tp == localtime_r(zone, currentTime + 60)
      aBits == Shl(to_bcd(CRem(tp.tm_year, 100)), 59 - 24)
               \cup Shl(to_bcd(tp.tm_mon + 1), 59 - 29)
               \cup Shl(to_bcd(tp.tm_mday), 59 - 35)
               \cup Shl(to_bcd(tp.tm_wday), 59 - 38)
               \cup Shl(to_bcd(tp.tm_hour), 59 - 44)
               \cup Shl(to_bcd(tp.tm_min), 59 - 51)
      bBits == Shl(odd_parity(aBits, 59 - 24, 59 - 17), 59 - 54)
               \cup Shl(odd_parity(aBits, 59 - 35, 59 - 25), 59 - 55)
               \cup Shl(odd_parity(aBits, 59 - 38, 59 - 36), 59 - 56)
               \cup Shl(odd_parity(aBits, 59 - 51, 59 - 39), 59 - 57)
               \cup Shl(B2I(tp.tm_isdst > 0), 59 - 58)
  IN  aBits \cup bBits

PrepareWWVB(zone, currentTime) ==
  LET tp == gmtime_r(currentTime)
      lt == localtime_r(zone, currentTime)
      tm == localtime_r(zone, currentTime + 86400)
  IN  Shl(to_padded_bcd(tp.tm_min), 59 - 8)
      \cup Shl(to_padded_bcd(tp.tm_hour), 59 - 18)
      \cup Shl(to_padded_bcd(tp.tm_yday + 1), 59 - 33)
      \cup Shl(to_padded_bcd(CRem(tp.tm_year, 100)), 59 - 53)
      \cup Shl(B2I(is_leap_year(tp.tm_year + 1900)), 59 - 55)
      \cup Shl(B2I(tm.tm_isdst > 0), 59 - 57)
      \cup Shl(B2I(lt.tm_isdst > 0), 59 - 58)

prepare_minute_NoSentinel(service, zone, currentTime) ==
  CASE service = "DCF77" -> PrepareDCF77(zone, currentTime)
    [] service = "JJY"   -> PrepareJJY(zone, currentTime)
    [] service = "MSF"   -> PrepareMSF(zone, currentTime)
    [] service = "WWVB"  -> PrepareWWVB(zone, currentTime)
    [] OTHER             -> {}

prepare_minute(service, zone, currentTime) ==
  CASE service = "DCF77" -> PrepareDCF77(zone, currentTime)
    [] service = "JJY"   -> PrepareJJY(zone, currentTime)
    [] service = "MSF"   -> PrepareMSF(zone, currentTime)
    [] service = "WWVB"  -> PrepareWWVB(zone, currentTime)
    [] OTHER             -> AllOnes

ModulationDCF77_Swapped(timeBits, sec) ==
  IF sec >= 59 THEN 0 ELSE IF sec \in timeBits THEN 100 ELSE 200

ModulationDCF77(timeBits, sec) ==
  IF sec >= 59 THEN 0 ELSE IF sec \in timeBits THEN 200 ELSE 100

ModulationJJY_BitFromLow(timeBits, sec) ==
  IF sec = 0 \/ CRem(sec, 10) = 9 \/ sec > 59 THEN 200
  ELSE IF sec \in timeBits THEN 500 ELSE 800

ModulationJJY(timeBits, sec) ==
  IF sec = 0 \/ CRem(sec, 10) = 9 \/ sec > 59 THEN 200
  ELSE IF (59 - sec) \in timeBits THEN 500 ELSE 800

ModulationMSF_NoWindow(timeBits, sec) ==
  IF sec = 0 \/ sec > 59 THEN 500
  ELSE 100 + B2I((59 - sec) \in timeBits) * 100

ModulationMSF(timeBits, sec) ==
  IF sec = 0 \/ sec > 59 THEN 500
  ELSE 100 + B2I((59 - sec) \in timeBits) * 100
           + B2I((sec > 52) /\ (sec < 59)) * 100

ModulationWWVB_MarkerAtZeroOnly(timeBits, sec) ==
  IF sec = 0 \/ sec > 59 THEN 800
  ELSE IF (59 - sec) \in timeBits THEN 500 ELSE 200

ModulationWWVB(timeBits, sec) ==
  IF sec = 0 \/ CRem(sec, 10) = 9 \/ sec > 59 THEN 800
  ELSE IF (59 - sec) \in timeBits THEN 500 ELSE 200

get_modulation_for_second(service, timeBits, sec) ==
  CASE service = "DCF77" -> ModulationDCF77(timeBits, sec)
    [] service = "JJY"   -> ModulationJJY(timeBits, sec)
    [] service = "MSF"   -> ModulationMSF(timeBits, sec)
    [] service = "WWVB"  -> ModulationWWVB(timeBits, sec)
    [] OTHER             -> -1


(***************************************************************************)
(* clock-control.c: clock sources and divider search                       *)
(***************************************************************************)
\* _clockSources: Pi clock source number, name, enabled for use
ClockSources ==
  << [clockSource |-> 1, clockString |-> "osc",      enableForUse |-> TRUE],
     [clockSource |-> 4, clockString |-> "plla_per", enableForUse |-> FALSE],
     [clockSource |-> 5, clockString |-> "pllc_per", enableForUse |-> FALSE],
     [clockSource |-> 6, clockString |-> "plld_per", enableForUse |-> TRUE],
     [clockSource |-> 7, clockString |-> "pllh_aux", enableForUse |-> TRUE] >>

NumSources == Len(ClockSources)

\* a/b < c/d, a/b = c/d for a, c >= 0 and b, d > 0, without forming products
RECURSIVE FracLess(_, _, _, _)
FracLess(a, b, c, d) ==
  LET qa == a \div b
      qc == c \div d
      ra == a % b
      rc == c % d
  IN  IF qa # qc THEN qa < qc
      ELSE IF rc = 0 THEN FALSE
      ELSE IF ra = 0 THEN TRUE
      ELSE FracLess(d, rc, b, ra)

FracEq(a, b, c, d) == ~FracLess(a, b, c, d) /\ ~FracLess(c, d, a, b)

\* division = clockFrequency / requestedFrequency is outside 2..4095
NotSuitable_FromOne(srcFreq, reqFreq) ==
  \/ srcFreq < reqFreq
  \/ srcFreq \div reqFreq > DivMax
  \/ (srcFreq \div reqFreq = DivMax /\ srcFreq % reqFreq # 0)

NotSuitable(srcFreq, reqFreq) ==
  \/ srcFreq < DivMin * reqFreq
  \/ srcFreq \div reqFreq > DivMax
  \/ (srcFreq \div reqFreq = DivMax /\ srcFreq % reqFreq # 0)

\* testDivI = (int)division
TestDivI(srcFreq, reqFreq) == srcFreq \div reqFreq

TestDivF_Rounded(srcFreq, reqFreq) ==
  ((srcFreq % reqFreq) * DivFracSteps + reqFreq \div 2) \div reqFreq

\* testDivF = (division - testDivI) * 1024, truncated by the conversion to int
TestDivF(srcFreq, reqFreq) ==
  ((srcFreq % reqFreq) * DivFracSteps) \div reqFreq

\* error = |requestedFrequency - clockFrequency / (testDivI + testDivF / 1024.0)|
\* as the fraction num / den:
\*   resultFreq = 1024 S / D with D = 1024 divI + divF,
\*   |f - resultFreq| = |f D - 1024 S| / D, and
\*   1024 S - f D = 1024 (S mod f) - f divF.
ErrorNum(srcFreq, reqFreq, divI, divF) ==
  Abs((srcFreq - reqFreq * divI) * DivFracSteps - reqFreq * divF)

ErrorDen(divI, divF) == DivFracSteps * divI + divF

\* the loop's "continue": the candidate does not replace the best so far
SkipCandidate_NoTieBreak(best, errNum, errDen, srcFreq) ==
  /\ best.idx >= 0
  /\ ~FracLess(errNum, errDen, best.errNum, best.errDen)

SkipCandidate(best, errNum, errDen, srcFreq) ==
  /\ best.idx >= 0
  /\ \/ FracLess(best.errNum, best.errDen, errNum, errDen)
     \/ (FracEq(errNum, errDen, best.errNum, best.errDen)
         /\ srcFreq <= best.srcFreq)

NoBest == [idx |-> -1, errNum |-> 0, errDen |-> 1, srcFreq |-> 0,
           divI |-> -1, divF |-> -1]

\* the for loop of start_clock over _clockSources[i], i = 1..NumSources
RECURSIVE ClockSearch(_, _, _, _)
ClockSearch(i, best, freqs, reqFreq) ==
  IF i > NumSources THEN best
  ELSE
    LET S    == freqs[i]
        dI   == TestDivI(S, reqFreq)
        dF   == TestDivF(S, reqFreq)
        eN   == ErrorNum(S, reqFreq, dI, dF)
        eD   == ErrorDen(dI, dF)
        next == IF NotSuitable(S, reqFreq) THEN best
                ELSE IF SkipCandidate(best, eN, eD, S) THEN best
                ELSE [idx |-> i, errNum |-> eN, errDen |-> eD, srcFreq |-> S,
                      divI |-> dI, divF |-> dF]
    IN  ClockSearch(i + 1, next, freqs, reqFreq)

(***************************************************************************)
(* Hardware registers                                                      *)
(***************************************************************************)
Bit(w, mask) == (w \div mask) % 2
ClearBits(w, mask, width) == w - ((w \div mask) % width) * mask

\* CLK_GP0CTL: the password byte is not stored, BUSY is driven by hardware
CtlEnab(w) == Bit(w, CLK_CTL_ENAB) = 1
CtlBusy(w) == Bit(w, CLK_CTL_BUSY) = 1
CtlSrc(w)  == w % 16
CtlMash(w) == (w \div CLK_CTL_MASH1) % 4
\* a write of word w to CLK_GP0CTL whose content was old
CtlWrite(old, w) ==
  ClearBits(w, CLK_CTL_BUSY, 2) + Bit(old, CLK_CTL_BUSY) * CLK_CTL_BUSY
\* setting ENAB starts the generator, which raises BUSY
CtlStart(w) == ClearBits(w, CLK_CTL_BUSY, 2) + CLK_CTL_BUSY

DivWord(divI, divF) == divI * 4096 + divF
DivI(w) == w \div 4096
DivF(w) == w % 4096

\* function select of GPIO4: bits 12..14 of GPFSEL0
Fsel4(w) == (w \div GPIO4_SHIFT) % 8
OtherPins(w) == ClearBits(w, GPIO4_SHIFT, 8)

GPIO_INPUT4_ClearsAlt0Bit(w) ==
  ClearBits(w, GPIO_FSEL_ALT0 * GPIO4_SHIFT, 2)

\* GPIO_INPUT(4):  word &= ~(7 << 12)
GPIO_INPUT4(w) == ClearBits(w, GPIO4_SHIFT, 8)
\* GPIO_ALT0(4):   word |= (4 << 12)
GPIO_ALT0_4(w) ==
  IF Bit(w, GPIO_FSEL_ALT0 * GPIO4_SHIFT) = 1 THEN w
  ELSE w + GPIO_FSEL_ALT0 * GPIO4_SHIFT

enable_clock_output(w, on) == IF on THEN GPIO_ALT0_4(w) ELSE GPIO_INPUT4(w)


(***************************************************************************)
(* State                                                                   *)
(***************************************************************************)
VARIABLES
  mainPc,          \* position of main
  exitStatus,      \* "none" while the process runs, then "success"/"failure"
  pc,              \* position of the worker thread
  threadRun,       \* _threadRun
  optCarrierOnly,  \* -c
  optSchedule,     \* -p: whether given, and its START:LEN entries
  threadData,      \* THREAD_DATA
  zone,            \* time zone of the host
  clkRate,         \* /sys/kernel/debug/clk/<name>/clk_rate, 0 when unreadable
  clockFrequency,  \* _clockSources[i].clockFrequency
  clkCtl,          \* CLK_GP0CTL
  clkDiv,          \* CLK_GP0DIV
  gpfsel0,         \* GPFSEL0
  best,            \* start_clock: bestClockSourceIndex, bestError, divI, divF
  stopRet,         \* where the running stop_clock returns to
  now,             \* CLOCK_REALTIME
  currentTime, minuteStart, minuteOfDay, minuteBits, second, modulation,
  targetWait,
  exitPath,        \* history: how the worker ended
  sigHandled,      \* history: sig_handler ran for SIGINT or SIGTERM
  prepCalls,       \* history: number of prepare_minute calls
  prepFor,         \* history: minuteStart of the last prepare_minute call
  flipsAfterStop   \* history: gate flips of the second loop since _threadRun = 0

cfgVars  == <<optCarrierOnly, optSchedule, threadData, zone, clkRate>>
hwVars   == <<clkCtl, clkDiv, gpfsel0>>
clkVars  == <<clockFrequency, best, stopRet>>
loopVars == <<currentTime, minuteStart, minuteOfDay, minuteBits, second,
              modulation, targetWait>>
histVars == <<exitPath, prepCalls, prepFor, flipsAfterStop>>
mainVars == <<mainPc, exitStatus>>
vars == <<mainPc, exitStatus, pc, threadRun, optCarrierOnly, optSchedule,
          threadData, zone, clkRate, clockFrequency, clkCtl, clkDiv, gpfsel0, best, stopRet,
          now, currentTime, minuteStart, minuteOfDay, minuteBits, second,
          modulation, targetWait, exitPath, sigHandled, prepCalls, prepFor,
          flipsAfterStop>>

(***************************************************************************)
(* Time                                                                    *)
(***************************************************************************)
Instant(s, ms) == [sec |-> s, ms |-> ms]
Before(a, b) == a.sec < b.sec \/ (a.sec = b.sec /\ a.ms < b.ms)
\* the last clock tick (100 ms) before instant t
PrevTick(t) == IF t.ms >= 100 THEN Instant(t.sec, t.ms - 100)
               ELSE Instant(t.sec - 1, 900)
\* clock_nanosleep(CLOCK_REALTIME, TIMER_ABSTIME, target) returning normally
SleepUntil(t, target) == IF Before(t, target) THEN target ELSE t
\* instants at which a signal can cut a sleep short: the first and the last
\* tick at which the sleep is still in progress
InterruptInstants(t, target) ==
  IF Before(t, target) THEN {t, PrevTick(target)} ELSE {}

(***************************************************************************)
(* Inputs                                                                  *)
(***************************************************************************)
\* -s: the service and its default carrier frequency (main, option table)
ServiceOptions ==
  { [timeService |-> "DCF77", carrierFrequency |-> 77500],
    [timeService |-> "JJY",   carrierFrequency |-> 40000],
    [timeService |-> "MSF",   carrierFrequency |-> 60000],
    [timeService |-> "WWVB",  carrierFrequency |-> 60000] }

\* lround(x) for x = num / den, den > 0: half away from zero
LRound(num, den) ==
  IF num >= 0 THEN (2 * num + den) \div (2 * den)
  ELSE -((2 * (-num) + den) \div (2 * den))

\* run schedules: the default (memset 1) and every second minute
ScheduleAll  == 0..(MINUTES_IN_DAY - 1)
ScheduleEven == {m \in 0..(MINUTES_IN_DAY - 1) : m % 2 = 0}

\* A schedule entry START:LEN as the two sscanf calls read it: start is the
\* start hour in thousandths of an hour, len the run time in minutes.
StartHourInvalid(e) == ~(e.start >= 0 /\ e.start < 24 * 1000)
RunMinutesInvalid(e) == e.len > MINUTES_IN_DAY
\* startMinute = lround(startHour * 60)
StartMinute(e) == LRound(e.start * 60, 1000)

\* the body of the loop over the entries, for one entry
ScheduleEntry(buffSched, e) ==
  IF StartHourInvalid(e) THEN buffSched
  ELSE IF RunMinutesInvalid(e) THEN buffSched
  ELSE IF StartMinute(e) >= MINUTES_IN_DAY THEN buffSched
  ELSE buffSched \cup {(StartMinute(e) + i) % MINUTES_IN_DAY :
                         i \in 0..(e.len - 1)}

\* the loop over the entries: every iteration only sets entries of the
\* mask, so the result is the union of what each entry sets
ScheduleEntries(buffSched, entries) ==
  buffSched \cup UNION {ScheduleEntry({}, entries[k]) :
                          k \in 1..Len(entries)}

\* memset(buffSched, 0, buffLen), then the entries in order
get_periodic_schedule(buffSched, entries) == ScheduleEntries({}, entries)

\* main, lines 180-182
MainSchedule(opt) ==
  IF opt.given THEN get_periodic_schedule(ScheduleAll, opt.entries)
  ELSE ScheduleAll

\* no -p, and -p with one entry of one minute for every even minute
NoSchedule == [given |-> FALSE, entries |-> <<>>]
EvenMinutes ==
  [given |-> TRUE,
   entries |-> [k \in 1..(MINUTES_IN_DAY \div 2) |->
                  [start |-> LRound((k - 1) * 2 * 1000, 60),
                   len |-> 1]]]
ScheduleOptions == {NoSchedule, EvenMinutes}
Schedules == {MainSchedule(opt) : opt \in ScheduleOptions}

\* hour offsets in thousandths of an hour
HourOffsets == {0}

\* 2024-06-15 12:00:57 UTC, 2019-12-31 23:58:58 UTC
StartInstants == {Instant(1718452857, 300), Instant(1577836738, 0)}

Zones == { [stdoff |-> 0, dstFrom |-> 2000000000] }

\* clk_rate readings: a Pi 3 (osc, plla, pllc, plld, pllh), and no debugfs
RateReadings == { <<19200000, 0, 1000000000, 500000000, 216000000>>,
                  <<0, 0, 0, 0, 0>> }

\* register contents left by whatever ran before: generator running on
\* GPIO4 with pin 3 an output, or everything idle with pin 3 an output
InitialRegs ==
  { [ctl |-> 512 + 128 + 16 + 6, div |-> DivWord(100, 0),
     fsel |-> GPIO_FSEL_ALT0 * GPIO4_SHIFT + 512],
    [ctl |-> 0, div |-> 0, fsel |-> 512] }

(***************************************************************************)
(* Initial state: main has installed sig_handler (sigaction)               *)
(***************************************************************************)
ClockLocalsInit ==
  /\ clockFrequency = <<0, 0, 0, 0, 0>>
  /\ best = NoBest
  /\ stopRet = "none"

LoopLocalsInit ==
  /\ currentTime = 0 /\ minuteStart = 0 /\ minuteOfDay = 0
  /\ minuteBits = {} /\ second = 0 /\ modulation = 0
  /\ targetWait = Instant(0, 0)

HistoryInit ==
  /\ exitPath = "none" /\ sigHandled = FALSE
  /\ prepCalls = 0 /\ prepFor = -1 /\ flipsAfterStop = 0

WorkerIdle ==
  /\ pc = "idle"
  /\ ClockLocalsInit
  /\ LoopLocalsInit
  /\ HistoryInit

Init ==
  /\ mainPc = "setup" /\ exitStatus = "none"
  /\ threadRun = 0
  /\ optCarrierOnly \in BOOLEAN
  /\ optSchedule \in ScheduleOptions
  /\ \E o \in ServiceOptions, h \in HourOffsets, d \in BOOLEAN :
       threadData = [timeService |-> o.timeService,
                     carrierFrequency |-> o.carrierFrequency,
                     runSchedule |-> MainSchedule(optSchedule),
                     hourOffset |-> h, disableChecks |-> d]
  /\ zone \in Zones
  /\ clkRate \in RateReadings
  /\ \E r \in InitialRegs :
       clkCtl = r.ctl /\ clkDiv = r.div /\ gpfsel0 = r.fsel
  /\ now \in StartInstants
  /\ WorkerIdle

(***************************************************************************)
(* main                                                                    *)
(***************************************************************************)
MainExit(status) == mainPc' = "done" /\ exitStatus' = status

\* lines 93-209: options, banner, mlockall, rt_thread_attr_init
M_Setup ==
  /\ mainPc = "setup"
  /\ \/ mainPc' = "set_run" /\ UNCHANGED exitStatus
     \/ MainExit("failure")
  /\ UNCHANGED <<pc, threadRun, cfgVars, hwVars, clkVars, now, loopVars,
                 histVars, sigHandled>>

\* line 211
M_SetRun ==
  /\ mainPc = "set_run"
  /\ threadRun' = 1
  /\ mainPc' = "create"
  /\ UNCHANGED <<exitStatus, pc, cfgVars, hwVars, clkVars, now, loopVars,
                 histVars, sigHandled>>

\* lines 212-228: pthread_create
M_Create ==
  /\ mainPc = "create"
  /\ \/ /\ mainPc' = "sigmask" /\ pc' = "gpio_init" /\ UNCHANGED exitStatus
     \/ /\ MainExit("failure") /\ UNCHANGED pc
  /\ UNCHANGED <<threadRun, cfgVars, hwVars, clkVars, now, loopVars,
                 histVars, sigHandled>>

\* lines 232-240: pthread_sigmask(SIG_BLOCK, {SIGINT, SIGTERM})
M_SigMask ==
  /\ mainPc = "sigmask"
  /\ mainPc' = "join"
  /\ UNCHANGED <<exitStatus, pc, threadRun, cfgVars, hwVars, clkVars, now,
                 loopVars, histVars, sigHandled>>

\* main ends without a return statement: the process status is 0
JoinStatus == "success"

\* lines 242-256: pthread_join, munlockall, "Program terminated."
M_Join ==
  /\ mainPc = "join"
  /\ pc = "exited"
  /\ MainExit(JoinStatus)
  /\ UNCHANGED <<pc, threadRun, cfgVars, hwVars, clkVars, now, loopVars,
                 histVars, sigHandled>>

ProcessRuns == exitStatus = "none"


(***************************************************************************)
(* Worker thread: initialisation (thread_time_signal, thread_carrier_only) *)
(***************************************************************************)
WorkerAlive == pc \notin {"idle", "exited"}

\* gpio_init(): board detection and the two mmap calls succeed or fail
W_GpioInit ==
  /\ pc = "gpio_init"
  /\ \/ /\ pc' = "start_clock"
        /\ UNCHANGED <<threadRun, exitPath>>
     \/ /\ threadRun' = 0
        /\ pc' = "exited"
        /\ exitPath' = "gpio_failed"
  /\ UNCHANGED <<mainVars, cfgVars, hwVars, clkVars, now, loopVars,
                 sigHandled, prepCalls, prepFor, flipsAfterStop>>

\* start_clock(): update_clock_source_frequencies and the source search
W_StartClock ==
  /\ pc = "start_clock"
  /\ clockFrequency' = clkRate
  /\ best' = ClockSearch(1, NoBest, clkRate, threadData.carrierFrequency)
  /\ IF best'.idx < 0
     THEN /\ threadRun' = 0
          /\ pc' = "exited"
          /\ exitPath' = "clock_failed"
          /\ UNCHANGED <<stopRet, hwVars>>
     ELSE /\ pc' = "stop_enab"
          /\ stopRet' = "write_div"
          /\ UNCHANGED <<threadRun, exitPath, hwVars>>
  /\ UNCHANGED <<mainVars, cfgVars, now, loopVars, sigHandled, prepCalls,
                 prepFor, flipsAfterStop>>

\* stop_clock(): clear ENAB
StopClockEnab ==
  /\ pc = "stop_enab"
  /\ clkCtl' = CtlWrite(clkCtl, ClearBits(clkCtl, CLK_CTL_ENAB, 2))
  /\ pc' = "stop_busy"
  /\ UNCHANGED <<mainVars, threadRun, cfgVars, clkDiv, gpfsel0, clkVars, now,
                 loopVars, histVars, sigHandled>>

StopClockBusy_NoWait ==
  /\ pc = "stop_busy"
  /\ pc' = "stop_off"
  /\ UNCHANGED <<mainVars, threadRun, cfgVars, hwVars, clkVars, now,
                 loopVars, histVars, sigHandled>>

\* stop_clock(): while (CTL & BUSY) usleep(10)
StopClockBusy ==
  /\ pc = "stop_busy"
  /\ ~CtlBusy(clkCtl)
  /\ pc' = "stop_off"
  /\ UNCHANGED <<mainVars, threadRun, cfgVars, hwVars, clkVars, now,
                 loopVars, histVars, sigHandled>>

\* stop_clock(): enable_clock_output(false), and the return to the caller;
\* from the worker's last call the thread goes on to pthread_exit
StopClockOff ==
  /\ pc = "stop_off"
  /\ gpfsel0' = enable_clock_output(gpfsel0, FALSE)
  /\ pc' = stopRet
  /\ exitPath' = IF stopRet = "exited" /\ exitPath = "none" THEN "normal"
                 ELSE exitPath
  /\ UNCHANGED <<mainVars, threadRun, cfgVars, clkCtl, clkDiv, clkVars, now,
                 loopVars, sigHandled, prepCalls, prepFor, flipsAfterStop>>

\* start_clock(): CLK_GP0DIV = PASSWD | DIVI(divI) | DIVF(divF)
W_WriteDiv ==
  /\ pc = "write_div"
  /\ clkDiv' = DivWord(best.divI, best.divF)
  /\ pc' = "write_ctl"
  /\ UNCHANGED <<mainVars, threadRun, cfgVars, clkCtl, gpfsel0, clkVars, now,
                 loopVars, histVars, sigHandled>>

\* start_clock(): CLK_GP0CTL = PASSWD | MASH(1) | SRC(src)
W_WriteCtl ==
  /\ pc = "write_ctl"
  /\ clkCtl' = CtlWrite(clkCtl, CLK_CTL_MASH1
                                  + ClockSources[best.idx].clockSource)
  /\ pc' = "set_enab"
  /\ UNCHANGED <<mainVars, threadRun, cfgVars, clkDiv, gpfsel0, clkVars, now,
                 loopVars, histVars, sigHandled>>

\* main line 215: the thread function is thread_carrier_only when -c was
\* given and thread_time_signal otherwise; the position after start_clock
ThreadBody_AlwaysTimeSignal == "init_off"

ThreadBody == IF optCarrierOnly THEN "carrier_on" ELSE "init_off"

\* start_clock(): CLK_GP0CTL |= PASSWD | ENAB, and the return to the thread
W_SetEnab ==
  /\ pc = "set_enab"
  /\ clkCtl' = CtlStart(IF CtlEnab(clkCtl) THEN clkCtl
                        ELSE clkCtl + CLK_CTL_ENAB)
  /\ pc' = ThreadBody
  /\ UNCHANGED <<mainVars, threadRun, cfgVars, clkDiv, gpfsel0, clkVars, now,
                 loopVars, histVars, sigHandled>>

\* the generator drops BUSY some time after ENAB was cleared
HwBusyClear ==
  /\ ~CtlEnab(clkCtl) /\ CtlBusy(clkCtl)
  /\ clkCtl' = ClearBits(clkCtl, CLK_CTL_BUSY, 2)
  /\ UNCHANGED <<mainVars, pc, threadRun, cfgVars, clkDiv, gpfsel0, clkVars,
                 now, loopVars, histVars, sigHandled>>

(***************************************************************************)
(* Worker thread: thread_carrier_only                                      *)
(***************************************************************************)
\* line 469
W_CarrierOn ==
  /\ pc = "carrier_on"
  /\ gpfsel0' = enable_clock_output(gpfsel0, TRUE)
  /\ pc' = "carrier_loop"
  /\ UNCHANGED <<mainVars, threadRun, cfgVars, clkCtl, clkDiv, clkVars, now,
                 loopVars, histVars, sigHandled>>

W_CarrierLoop_ClearsFlag ==
  /\ pc = "carrier_loop"
  /\ threadRun' = 0
  /\ pc' = "stopping"
  /\ UNCHANGED <<mainVars, cfgVars, hwVars, clkVars, now,
                 loopVars, histVars, sigHandled>>

\* lines 471-474: while (_threadRun) usleep(100)
W_CarrierLoop ==
  /\ pc = "carrier_loop"
  /\ threadRun = 0
  /\ pc' = "stopping"
  /\ UNCHANGED <<mainVars, threadRun, cfgVars, hwVars, clkVars, now,
                 loopVars, histVars, sigHandled>>

(***************************************************************************)
(* Worker thread: thread_time_signal                                       *)
(***************************************************************************)
MinuteOffset_Truncated == CDiv(threadData.hourOffset * 60, 1000)

\* minuteOffset = lround(threadData.hourOffset * 60)
MinuteOffset == LRound(threadData.hourOffset * 60, 1000)

\* the sanity check of the system clock year fails
SanityFails_NoCheck(t) == FALSE

SanityFails(t) ==
  /\ ~threadData.disableChecks
  /\ (gmtime_r(t).tm_year + 1900) < SanityYear

\* lines 527-539
W_InitOff ==
  /\ pc = "init_off"
  /\ gpfsel0' = enable_clock_output(gpfsel0, FALSE)
  /\ currentTime' = now.sec
  /\ minuteStart' = now.sec - CRem(now.sec, 60)
  /\ threadRun' = IF SanityFails(now.sec) THEN 0 ELSE threadRun
  /\ exitPath' = IF SanityFails(now.sec) THEN "sanity_failed" ELSE exitPath
  /\ pc' = "loop"
  /\ UNCHANGED <<mainVars, cfgVars, clkCtl, clkDiv, clkVars, now,
                 minuteOfDay, minuteBits, second, modulation, targetWait,
                 sigHandled, prepCalls, prepFor, flipsAfterStop>>

\* lines 543-546
MinuteOfDayOf(ms) ==
  CDiv(CRem(ms + localtime_r(zone, ms).tm_gmtoff, SECONDS_IN_DAY), 60)

\* threadData.runSchedule[idx]; a read outside the array yields any value
ScheduleRead(idx) ==
  IF idx \in 0..(MINUTES_IN_DAY - 1)
  THEN {idx \in threadData.runSchedule}
  ELSE BOOLEAN

LoopIterations == (minuteStart - (currentTime - CRem(currentTime, 60))) \div 60

\* the instant a skipped minute waits for
SkipTarget_FromNow(ms) == Instant(now.sec + 60, now.ms)

SkipTarget(ms) == Instant(ms + 60, 0)

\* lines 541-566: the while test, the schedule lookup and the skip branch
W_Loop ==
  /\ pc = "loop"
  /\ IF threadRun = 0
     THEN /\ pc' = "stopping"
          /\ UNCHANGED <<gpfsel0, minuteStart, minuteOfDay, targetWait>>
     ELSE /\ LoopIterations < MaxMinutes
          /\ minuteOfDay' = MinuteOfDayOf(minuteStart)
          /\ \E enabled \in ScheduleRead(minuteOfDay') :
               IF enabled
               THEN /\ pc' = "prepare"
                    /\ UNCHANGED <<gpfsel0, minuteStart, targetWait>>
               ELSE /\ gpfsel0' = enable_clock_output(gpfsel0, FALSE)
                    /\ minuteStart' = minuteStart + 60
                    /\ targetWait' = SkipTarget(minuteStart)
                    /\ pc' = "skip_wait"
  /\ UNCHANGED <<mainVars, threadRun, cfgVars, clkCtl, clkDiv, clkVars, now,
                 currentTime, minuteBits, second, modulation, histVars,
                 sigHandled>>

\* line 563: the sleep of a skipped minute ends at its target
W_SkipWait ==
  /\ pc = "skip_wait"
  /\ now' = SleepUntil(now, targetWait)
  /\ pc' = "loop"
  /\ UNCHANGED <<mainVars, threadRun, cfgVars, hwVars, clkVars, loopVars,
                 histVars, sigHandled>>

\* lines 586-592
W_Prepare ==
  /\ pc = "prepare"
  /\ minuteBits' = prepare_minute(threadData.timeService, zone,
                                  minuteStart + (MinuteOffset * 60))
  /\ prepCalls' = prepCalls + 1
  /\ prepFor' = minuteStart
  /\ IF minuteBits' = AllOnes
     THEN /\ threadRun' = 0
          /\ pc' = "stopping"
          /\ exitPath' = "encode_failed"
          /\ UNCHANGED second
     ELSE /\ second' = 0
          /\ pc' = "sec_check"
          /\ UNCHANGED <<threadRun, exitPath>>
  /\ UNCHANGED <<mainVars, cfgVars, hwVars, clkVars, now, currentTime,
                 minuteStart, minuteOfDay, modulation, targetWait,
                 sigHandled, flipsAfterStop>>

\* the instant at which second sec of the minute starts
SecondTarget(ms, sec) == Instant(ms + sec, 0)

\* lines 594-609 and 636: the for test, the modulation of the second and the
\* target of the first sleep; after the last second the minute advances
W_SecCheck ==
  /\ pc = "sec_check"
  /\ IF second < 60 /\ threadRun = 1
     THEN /\ modulation' = get_modulation_for_second(threadData.timeService,
                                                     minuteBits, second)
          /\ IF modulation' < 0
             THEN /\ threadRun' = 0
                  /\ minuteStart' = minuteStart + 60
                  /\ pc' = "stopping"
                  /\ exitPath' = "encode_failed"
                  /\ UNCHANGED targetWait
             ELSE /\ targetWait' = SecondTarget(minuteStart, second)
                  /\ pc' = "wait_start"
                  /\ UNCHANGED <<threadRun, exitPath, minuteStart>>
     ELSE /\ minuteStart' = minuteStart + 60
          /\ pc' = "loop"
          /\ UNCHANGED <<modulation, targetWait, threadRun, exitPath>>
  /\ UNCHANGED <<mainVars, cfgVars, hwVars, clkVars, now, currentTime,
                 minuteOfDay, minuteBits, second, sigHandled, prepCalls,
                 prepFor, flipsAfterStop>>

\* line 610: the sleep to the start of the second ends at its target
W_WaitStart ==
  /\ pc = "wait_start"
  /\ now' = SleepUntil(now, targetWait)
  /\ pc' = "flip1"
  /\ UNCHANGED <<mainVars, threadRun, cfgVars, hwVars, clkVars, loopVars,
                 histVars, sigHandled>>

\* the gate at the start of the modulation: on for JJY, off for the others
ModulationStartOn_NoJJY(service) == FALSE

ModulationStartOn(service) == (service = "JJY")

CountFlip == IF threadRun = 0 THEN flipsAfterStop + 1 ELSE flipsAfterStop

\* lines 612-627
W_Flip1 ==
  /\ pc = "flip1"
  /\ gpfsel0' = enable_clock_output(gpfsel0,
                                    ModulationStartOn(threadData.timeService))
  /\ targetWait' = Instant(targetWait.sec, modulation)
  /\ flipsAfterStop' = CountFlip
  /\ pc' = "wait_mod"
  /\ UNCHANGED <<mainVars, threadRun, cfgVars, clkCtl, clkDiv, clkVars, now,
                 currentTime, minuteStart, minuteOfDay, minuteBits, second,
                 modulation, exitPath, sigHandled, prepCalls, prepFor>>

\* line 628: the sleep to the end of the modulation ends at its target
W_WaitMod ==
  /\ pc = "wait_mod"
  /\ now' = SleepUntil(now, targetWait)
  /\ pc' = "flip2"
  /\ UNCHANGED <<mainVars, threadRun, cfgVars, hwVars, clkVars, loopVars,
                 histVars, sigHandled>>

\* lines 630-634, and second++
W_Flip2 ==
  /\ pc = "flip2"
  /\ gpfsel0' = enable_clock_output(gpfsel0,
                                    ~ModulationStartOn(threadData.timeService))
  /\ second' = second + 1
  /\ flipsAfterStop' = CountFlip
  /\ pc' = "sec_check"
  /\ UNCHANGED <<mainVars, threadRun, cfgVars, clkCtl, clkDiv, clkVars, now,
                 currentTime, minuteStart, minuteOfDay, minuteBits,
                 modulation, targetWait, exitPath, sigHandled, prepCalls,
                 prepFor>>

\* lines 639-641 (476-478): enable_clock_output(false), then stop_clock()
W_Stopping ==
  /\ pc = "stopping"
  /\ gpfsel0' = enable_clock_output(gpfsel0, FALSE)
  /\ stopRet' = "exited"
  /\ pc' = "stop_enab"
  /\ UNCHANGED <<mainVars, threadRun, cfgVars, clkCtl, clkDiv,
                 clockFrequency, best, now, loopVars, histVars, sigHandled>>

(***************************************************************************)
(* sig_handler                                                             *)
(***************************************************************************)
MainBlocksSignals == mainPc \in {"join", "done"}

Sleeping ==
  /\ pc \in {"skip_wait", "wait_start", "wait_mod"}
  /\ Before(now, targetWait)

AfterSleep(p) ==
  CASE p = "skip_wait"  -> "loop"
    [] p = "wait_start" -> "flip1"
    [] p = "wait_mod"   -> "flip2"

\* SIGINT or SIGTERM handled by main (which has not blocked them yet), or by
\* the worker outside clock_nanosleep; at a sleep position this is the
\* handler running just before the thread enters the call
Signal ==
  /\ ProcessRuns
  /\ \/ ~MainBlocksSignals
     \/ WorkerAlive
  /\ threadRun' = 0
  /\ sigHandled' = TRUE
  /\ UNCHANGED <<mainVars, pc, cfgVars, hwVars, clkVars, now, loopVars,
                 histVars>>

\* SIGINT or SIGTERM handled by the worker inside clock_nanosleep: the
\* handler runs and the sleep returns early (EINTR)
SignalInterrupt ==
  /\ ProcessRuns
  /\ Sleeping
  /\ \E t \in InterruptInstants(now, targetWait) : now' = t
  /\ threadRun' = 0
  /\ sigHandled' = TRUE
  /\ pc' = AfterSleep(pc)
  /\ UNCHANGED <<mainVars, cfgVars, hwVars, clkVars, loopVars, histVars>>

(***************************************************************************)
(* The program                                                             *)
(***************************************************************************)
Next ==
  \/ M_Setup \/ M_SetRun \/ M_Create \/ M_SigMask \/ M_Join
  \/ W_GpioInit \/ W_StartClock
  \/ StopClockEnab \/ StopClockBusy \/ StopClockOff
  \/ W_WriteDiv \/ W_WriteCtl \/ W_SetEnab
  \/ HwBusyClear
  \/ W_CarrierOn \/ W_CarrierLoop
  \/ W_InitOff \/ W_Loop \/ W_SkipWait \/ W_Prepare \/ W_SecCheck
  \/ W_WaitStart \/ W_Flip1 \/ W_WaitMod \/ W_Flip2 \/ W_Stopping
  \/ Signal \/ SignalInterrupt

Spec == Init /\ [][Next]_vars


(***************************************************************************)
(* start_clock alone, over many requested and source frequencies           *)
(***************************************************************************)
RequestedFrequencies == {40000, 60000, 77500}

\* unreadable, a rate just below three times 40 kHz (and below twice 60 and
\* 77.5 kHz), the 19.2 MHz oscillator, two rates that are exact multiples of
\* 40 and 60 kHz, and 4095 times 60 kHz
SourceFrequencies == {0, 119999, 19200000, 120000000, 240000000, 245700000}

ClockInitialRegs ==
  InitialRegs \cup { [ctl |-> 128, div |-> DivWord(4095, 1023),
                      fsel |-> 7 * GPIO4_SHIFT + 7] }

InitClock ==
  /\ mainPc = "join" /\ exitStatus = "none"
  /\ threadRun = 1
  /\ optCarrierOnly = FALSE
  /\ optSchedule = NoSchedule
  /\ \E f \in RequestedFrequencies :
       threadData = [timeService |-> "DCF77", carrierFrequency |-> f,
                     runSchedule |-> ScheduleAll, hourOffset |-> 0,
                     disableChecks |-> FALSE]
  /\ zone \in Zones
  /\ clkRate \in [1..NumSources -> SourceFrequencies]
  /\ \E r \in ClockInitialRegs :
       clkCtl = r.ctl /\ clkDiv = r.div /\ gpfsel0 = r.fsel
  /\ now = Instant(1718452857, 0)
  /\ ClockLocalsInit /\ LoopLocalsInit /\ HistoryInit
  /\ pc = "start_clock"

NextClock ==
  \/ W_StartClock
  \/ StopClockEnab \/ StopClockBusy \/ StopClockOff
  \/ W_WriteDiv \/ W_WriteCtl \/ W_SetEnab
  \/ HwBusyClear

SpecClock == InitClock /\ [][NextClock]_vars

(***************************************************************************)
(* get_periodic_schedule alone, over schedule expressions                  *)
(***************************************************************************)
\* start hours: 0, 2, 13.5, 23.5, 23.99, 23.995, 24 and -1
ScheduleStarts == {0, 2000, 13500, 23500, 23990, 23995, 24000, -1000}
\* run times in minutes
ScheduleLens == {0, 1, 15, 30, 1440, 1441}
MaxEntries == 2

ScheduleInputs ==
  {[given |-> TRUE, entries |-> es] :
     es \in UNION {[1..n -> [start : ScheduleStarts, len : ScheduleLens]] :
                    n \in 0..MaxEntries}}

InitSched ==
  /\ mainPc = "setup" /\ exitStatus = "none"
  /\ threadRun = 0
  /\ optCarrierOnly = FALSE
  /\ optSchedule \in ScheduleInputs
  /\ \E prior \in {ScheduleAll, {}} :
       threadData = [timeService |-> "DCF77", carrierFrequency |-> 77500,
                     runSchedule |-> prior, hourOffset |-> 0,
                     disableChecks |-> FALSE]
  /\ zone \in Zones
  /\ clkRate = <<0, 0, 0, 0, 0>>
  /\ clkCtl = 0 /\ clkDiv = 0 /\ gpfsel0 = 0
  /\ now = Instant(1718452800, 0)
  /\ WorkerIdle

\* line 182, also applied again to its own result
M_Schedule ==
  /\ mainPc \in {"setup", "schedule_set"}
  /\ optSchedule.given
  /\ threadData' =
       [threadData EXCEPT
          !.runSchedule = get_periodic_schedule(threadData.runSchedule,
                                                optSchedule.entries)]
  /\ mainPc' = "schedule_set"
  /\ UNCHANGED <<exitStatus, pc, threadRun, optCarrierOnly, optSchedule, zone,
                 clkRate, hwVars, clkVars, now, loopVars, histVars,
                 sigHandled>>

NextSched == M_Schedule

SpecSched == InitSched /\ [][NextSched]_vars

(***************************************************************************)
(* prepare_minute over services, time zones, hour offsets and minutes      *)
(***************************************************************************)
\* minute starts: 2024-06-15 12:00 UTC in steps of 61 minutes (every minute
\* and hour value), 2023-12-30 00:00 UTC in steps of a day, an hour and a
\* minute (every day of a leap year, month and weekday), the last minutes
\* of 2024 and of February 2024, the minutes around the start of
\* daylight-saving time, and the last minute of 2037
EncSweepLen == 60
EncDays == 380
EncInstants ==
  {1718452800 + 3660 * k : k \in 0..(EncSweepLen - 1)}
  \cup {1703894400 + 90060 * k : k \in 0..(EncDays - 1)}
  \cup {1735689540 - 60 * k : k \in 0..2}
  \cup {1709251140, 1709164740}
  \cup {1711846800 - 120, 1711846800 - 60, 1711846800,
        1711846800 - 86400, 1711846800 - 86460}
  \cup {2145916740}

\* UTC, central Europe with summer time from 2024-03-31 01:00 UTC, Japan,
\* and US Eastern with daylight time from the same instant
EncZones ==
  { [stdoff |-> 0,      dstFrom |-> 2147000000],
    [stdoff |-> 3600,   dstFrom |-> 1711846800],
    [stdoff |-> 32400,  dstFrom |-> 2147000000],
    [stdoff |-> -18000, dstFrom |-> 1711846800] }

\* -o in thousandths of an hour: none, one hour, minus half an hour
EncHourOffsets == {0, 1000, -500}

InitEnc ==
  /\ mainPc = "join" /\ exitStatus = "none"
  /\ threadRun = 1
  /\ optCarrierOnly = FALSE
  /\ optSchedule = NoSchedule
  /\ \E sv \in Services \cup {"UNKNOWN"}, h \in EncHourOffsets :
       threadData = [timeService |-> sv, carrierFrequency |-> 60000,
                     runSchedule |-> ScheduleAll, hourOffset |-> h,
                     disableChecks |-> FALSE]
  /\ zone \in EncZones
  /\ clkRate = <<0, 0, 0, 0, 0>>
  /\ clkCtl = CLK_CTL_MASH1 + CLK_CTL_BUSY + CLK_CTL_ENAB + 1
  /\ clkDiv = DivWord(320, 0) /\ gpfsel0 = 0
  /\ ClockLocalsInit
  /\ minuteStart \in EncInstants
  /\ now = Instant(minuteStart, 0)
  /\ currentTime = minuteStart
  /\ minuteOfDay = MinuteOfDayOf(minuteStart)
  /\ minuteBits = {} /\ second = 0 /\ modulation = 0
  /\ targetWait = Instant(0, 0)
  /\ HistoryInit
  /\ pc = "prepare"

NextEnc ==
  \/ W_Prepare
  \/ W_SecCheck

SpecEnc == InitEnc /\ [][NextEnc]_vars

(***************************************************************************)
(* thread_time_signal from line 527 to the schedule lookup of each minute, *)
(* over system clock readings, host time zones and schedules               *)
(***************************************************************************)
\* 1970-01-01 00:00:00, 00:00:59, 01:00:00, 04:59:59, 05:00:00 and 23:59:59
\* UTC; 2024-06-15 12:00:57; one minute before 2024-03-31 01:00:00;
\* 2024-12-31 23:59:59
LoopInstants == {0, 59, 3600, 17999, 18000, 86399,
                 1718452857, 1711846740, 1735689599}

InitLoop ==
  /\ mainPc = "join" /\ exitStatus = "none"
  /\ threadRun = 1
  /\ optCarrierOnly = FALSE
  /\ optSchedule \in ScheduleOptions
  /\ \E sv \in Services, h \in EncHourOffsets, d \in BOOLEAN :
       threadData = [timeService |-> sv, carrierFrequency |-> 60000,
                     runSchedule |-> MainSchedule(optSchedule),
                     hourOffset |-> h, disableChecks |-> d]
  /\ zone \in EncZones
  /\ clkRate = <<19200000, 0, 0, 0, 0>>
  /\ clockFrequency = clkRate
  /\ best = [idx |-> 1, errNum |-> 0, errDen |-> 1, srcFreq |-> 19200000,
             divI |-> 320, divF |-> 0]
  /\ stopRet = "init_off"
  /\ clkCtl = CLK_CTL_MASH1 + CLK_CTL_BUSY + CLK_CTL_ENAB + 1
  /\ clkDiv = DivWord(320, 0)
  /\ gpfsel0 = 0
  /\ \E t \in LoopInstants : now = Instant(t, 0)
  /\ LoopLocalsInit /\ HistoryInit
  /\ pc = "init_off"

NextLoop ==
  \/ W_InitOff
  \/ W_Loop
  \/ W_SkipWait

SpecLoop == InitLoop /\ [][NextLoop]_vars

(***************************************************************************)
(* thread_time_signal from line 527 through its minutes, without signals,  *)
(* over services, hour offsets, host time zones and schedules              *)
(***************************************************************************)
\* -o: 0, -0.5 h and 0.025 h (one and a half minutes)
MinuteHourOffsets == {0, -500, 25}

\* 2024-06-15 12:00:57.3 UTC and 2024-03-31 00:58:58 UTC, two minutes
\* before the daylight-saving change of the zones below
MinuteInstants == {Instant(1718452857, 300), Instant(1711846738, 0)}

MinuteZones == { [stdoff |-> 0, dstFrom |-> 2147000000],
                 [stdoff |-> 3600, dstFrom |-> 1711846800] }

InitMinute ==
  /\ mainPc = "join" /\ exitStatus = "none"
  /\ threadRun = 1
  /\ optCarrierOnly = FALSE
  /\ optSchedule \in ScheduleOptions
  /\ \E o \in ServiceOptions, h \in MinuteHourOffsets :
       threadData = [timeService |-> o.timeService,
                     carrierFrequency |-> o.carrierFrequency,
                     runSchedule |-> MainSchedule(optSchedule),
                     hourOffset |-> h, disableChecks |-> FALSE]
  /\ zone \in MinuteZones
  /\ clkRate = <<19200000, 0, 0, 0, 0>>
  /\ clockFrequency = clkRate
  /\ best = [idx |-> 1, errNum |-> 0, errDen |-> 1, srcFreq |-> 19200000,
             divI |-> 320, divF |-> 0]
  /\ stopRet = "init_off"
  /\ clkCtl = CLK_CTL_MASH1 + CLK_CTL_BUSY + CLK_CTL_ENAB + 1
  /\ clkDiv = DivWord(320, 0)
  /\ gpfsel0 = 0
  /\ now \in MinuteInstants
  /\ LoopLocalsInit /\ HistoryInit
  /\ pc = "init_off"

NextMinute ==
  \/ W_InitOff
  \/ W_Loop
  \/ W_SkipWait
  \/ W_Prepare
  \/ W_SecCheck
  \/ W_WaitStart
  \/ W_Flip1
  \/ W_WaitMod
  \/ W_Flip2

SpecMinute == InitMinute /\ [][NextMinute]_vars

(***************************************************************************)
(* Both thread functions from start_clock to the end of the thread, over   *)
(* the contents of GPFSEL0 found at startup                                *)
(***************************************************************************)
\* GPFSEL0 at startup: each function of GPIO4, with the other pins all
\* inputs, or pin 3 an output and pin 5 on ALT0, or every other field at 7
GateInitialFsel ==
  {f * GPIO4_SHIFT + o :
     f \in 0..7, o \in {0, 512 + GPIO_FSEL_ALT0 * 32768, 1073741823 - 7 * GPIO4_SHIFT}}

InitGate ==
  /\ mainPc = "join" /\ exitStatus = "none"
  /\ threadRun = 1
  /\ optCarrierOnly \in BOOLEAN
  /\ optSchedule = EvenMinutes
  /\ \E sv \in {"DCF77", "JJY"} :
       threadData = [timeService |-> sv, carrierFrequency |-> 60000,
                     runSchedule |-> MainSchedule(optSchedule),
                     hourOffset |-> 0, disableChecks |-> FALSE]
  /\ zone \in Zones
  /\ clkRate = <<19200000, 0, 0, 0, 0>>
  /\ clkCtl = CLK_CTL_MASH1 + CLK_CTL_BUSY + CLK_CTL_ENAB + 6
  /\ clkDiv = DivWord(100, 0)
  /\ gpfsel0 \in GateInitialFsel
  /\ now = Instant(1718452858, 300)
  /\ ClockLocalsInit /\ LoopLocalsInit /\ HistoryInit
  /\ pc = "start_clock"

NextGate ==
  \/ W_StartClock
  \/ StopClockEnab \/ StopClockBusy \/ StopClockOff
  \/ W_WriteDiv \/ W_WriteCtl \/ W_SetEnab
  \/ HwBusyClear
  \/ W_CarrierOn \/ W_CarrierLoop
  \/ W_InitOff \/ W_Loop \/ W_SkipWait \/ W_Prepare \/ W_SecCheck
  \/ W_WaitStart \/ W_Flip1 \/ W_WaitMod \/ W_Flip2 \/ W_Stopping
  \/ Signal

SpecGate == InitGate /\ [][NextGate]_vars

(***************************************************************************)
(* thread_time_signal from prepare_minute on, for any THREAD_DATA: the     *)
(* encoder calls, their error branches and the shutdown code               *)
(***************************************************************************)
FailInstants == {1718452800, 1735689540, 1711846800 - 60}
FailSeconds == {0, 1, 30, 59}

InitFail ==
  /\ mainPc = "join" /\ exitStatus = "none"
  /\ threadRun = 1
  /\ optCarrierOnly = FALSE
  /\ optSchedule = NoSchedule
  /\ \E sv \in Services \cup {"UNKNOWN"} :
       threadData = [timeService |-> sv, carrierFrequency |-> 60000,
                     runSchedule |-> ScheduleAll, hourOffset |-> 0,
                     disableChecks |-> FALSE]
  /\ zone \in EncZones
  /\ clkRate = <<19200000, 0, 0, 0, 0>>
  /\ clockFrequency = clkRate
  /\ best = [idx |-> 1, errNum |-> 0, errDen |-> 1, srcFreq |-> 19200000,
             divI |-> 320, divF |-> 0]
  /\ stopRet = "init_off"
  /\ clkCtl = CLK_CTL_MASH1 + CLK_CTL_BUSY + CLK_CTL_ENAB + 1
  /\ clkDiv = DivWord(320, 0)
  /\ gpfsel0 \in {0, GPIO_FSEL_ALT0 * GPIO4_SHIFT}
  /\ minuteStart \in FailInstants
  /\ now = Instant(minuteStart, 0)
  /\ currentTime = minuteStart
  /\ minuteOfDay = MinuteOfDayOf(minuteStart)
  /\ modulation = 0
  /\ targetWait = Instant(0, 0)
  /\ exitPath = "none" /\ sigHandled = FALSE /\ flipsAfterStop = 0
  /\ \/ /\ pc = "prepare"
        /\ minuteBits = {} /\ second = 0
        /\ prepCalls = 0 /\ prepFor = -1
     \/ /\ pc = "sec_check"
        /\ minuteBits \in {{}, 0..59, {20, 21, 45}}
        /\ second \in FailSeconds
        /\ prepCalls = 1 /\ prepFor = minuteStart

NextFail ==
  \/ W_Prepare
  \/ W_SecCheck
  \/ W_Stopping
  \/ StopClockEnab
  \/ StopClockBusy
  \/ StopClockOff
  \/ HwBusyClear

SpecFail == InitFail /\ [][NextFail]_vars

(***************************************************************************)
(* get_modulation_for_second alone, over payloads, seconds and services    *)
(***************************************************************************)
PayloadSamples ==
  {{}, 0..59}
  \cup {{b} : b \in 0..59}
  \cup {(0..59) \ {b} : b \in 0..59}
  \cup {prepare_minute(sv, z, t.sec) :
          sv \in Services, z \in Zones, t \in StartInstants}

InitMod ==
  /\ mainPc = "join" /\ exitStatus = "none"
  /\ threadRun = 1
  /\ optCarrierOnly = FALSE
  /\ optSchedule = NoSchedule
  /\ \E sv \in Services \cup {"UNKNOWN"} :
       threadData = [timeService |-> sv, carrierFrequency |-> 60000,
                     runSchedule |-> ScheduleAll, hourOffset |-> 0,
                     disableChecks |-> FALSE]
  /\ zone \in Zones
  /\ clkRate = <<0, 0, 0, 0, 0>>
  /\ clkCtl = 0 /\ clkDiv = 0 /\ gpfsel0 = 0
  /\ now = Instant(1718452800, 0)
  /\ ClockLocalsInit
  /\ currentTime = 1718452800 /\ minuteStart = 1718452800 /\ minuteOfDay = 720
  /\ minuteBits \in PayloadSamples
  /\ second \in 0..59
  /\ modulation = 0
  /\ targetWait = Instant(0, 0)
  /\ exitPath = "none" /\ sigHandled = FALSE
  /\ prepCalls = 1 /\ prepFor = 1718452800 /\ flipsAfterStop = 0
  /\ pc = "sec_check"

NextMod == W_SecCheck

SpecMod == InitMod /\ [][NextMod]_vars


(***************************************************************************)
(* Properties                                                              *)
(***************************************************************************)
OutputEnabled == Fsel4(gpfsel0) = GPIO_FSEL_ALT0
OutputInput   == Fsel4(gpfsel0) = 0

\* positions of the per-minute loop body
MinuteBody == {"skip_wait", "prepare", "sec_check", "wait_start", "flip1",
               "wait_mod", "flip2"}

\* the worker has executed its startup code (lines 527-539)
PastStartup ==
  /\ ~optCarrierOnly
  /\ \/ pc \in MinuteBody \cup {"loop", "stopping"}
     \/ (pc \in {"stop_enab", "stop_busy", "stop_off", "exited"}
         /\ stopRet = "exited")

\* C1: whenever the worker thread has ended, on whatever path, the GPIO4
\* output is disabled and the enable bit of the clock is clear.
C1_ExitLeavesCarrierOff ==
  pc = "exited" => (OutputInput /\ ~CtlEnab(clkCtl))

\* C2: when the worker ended on a gpio_init or start_clock failure, the
\* status the process exits with is failure.
C2_FatalFailureExitsWithFailure ==
  (exitStatus # "none" /\ exitPath \in {"gpio_failed", "clock_failed"})
    => exitStatus = "failure"

\* source j of the table is within the divider range for request f
InRange(S, f) == 2 * f <= S /\ S <= DivMax * f

SearchDone == pc # "start_clock"

RequestedFrequency == threadData.carrierFrequency

\* the error of table entry j with the divider the code computes for it
CandErrNum(j) ==
  ErrorNum(clockFrequency[j], RequestedFrequency,
           TestDivI(clockFrequency[j], RequestedFrequency),
           TestDivF(clockFrequency[j], RequestedFrequency))
CandErrDen(j) ==
  ErrorDen(TestDivI(clockFrequency[j], RequestedFrequency),
           TestDivF(clockFrequency[j], RequestedFrequency))

\* C3: when some source is within the divider range, start_clock selects a
\* source whose error is no larger than that of every candidate in range,
\* and among the candidates of equal error one of the highest frequency.
C3_SelectsSmallestError ==
  (SearchDone /\ \E j \in 1..NumSources :
                    InRange(clockFrequency[j], RequestedFrequency))
    => /\ best.idx \in 1..NumSources
       /\ InRange(clockFrequency[best.idx], RequestedFrequency)
       /\ best.srcFreq = clockFrequency[best.idx]
       /\ best.divI = TestDivI(best.srcFreq, RequestedFrequency)
       /\ best.divF = TestDivF(best.srcFreq, RequestedFrequency)
       /\ \A j \in 1..NumSources :
            InRange(clockFrequency[j], RequestedFrequency)
              => /\ ~FracLess(CandErrNum(j), CandErrDen(j),
                              CandErrNum(best.idx), CandErrDen(best.idx))
                 /\ FracEq(CandErrNum(j), CandErrDen(j),
                           CandErrNum(best.idx), CandErrDen(best.idx))
                      => clockFrequency[j] <= best.srcFreq

\* the search ended with a tie on a non-zero error between two sources of
\* different frequency, and with a candidate of larger error
C3_Witness ==
  /\ pc = "init_off"
  /\ best.idx \in 1..NumSources
  /\ CandErrNum(best.idx) > 0
  /\ \E j, k \in 1..NumSources :
       /\ InRange(clockFrequency[j], RequestedFrequency)
       /\ clockFrequency[j] < best.srcFreq
       /\ FracEq(CandErrNum(j), CandErrDen(j),
                 CandErrNum(best.idx), CandErrDen(best.idx))
       /\ InRange(clockFrequency[k], RequestedFrequency)
       /\ FracLess(CandErrNum(best.idx), CandErrDen(best.idx),
                   CandErrNum(k), CandErrDen(k))

\* C4: the source start_clock selects is one that is enabled for use.
C4_SelectsOnlyEnabledSources ==
  (SearchDone /\ best.idx \in 1..NumSources)
    => ClockSources[best.idx].enableForUse

\* C5: when no source is within the divider range, start_clock fails and
\* leaves the control word, the divisor word and GPFSEL0 as they were.
C5_FailureWritesNothing ==
  [][(pc = "start_clock" /\ pc' # pc
      /\ \A j \in 1..NumSources : ~InRange(clkRate[j], RequestedFrequency))
       => (pc' = "exited" /\ exitPath' = "clock_failed"
           /\ clkCtl' = clkCtl /\ clkDiv' = clkDiv /\ gpfsel0' = gpfsel0)]_vars

\* start_clock failed with the generator enabled and a rate below twice the
\* request among the sources
C5_Witness ==
  /\ pc = "exited" /\ exitPath = "clock_failed"
  /\ CtlEnab(clkCtl)
  /\ \E j \in 1..NumSources :
       clockFrequency[j] > 0 /\ ~InRange(clockFrequency[j], RequestedFrequency)

\* the sanity check applies and the system clock year is below 2020
ClockYearTooOld ==
  /\ ~threadData.disableChecks
  /\ gmtime_r(currentTime).tm_year + 1900 < 2020

\* C6: with sanity checks enabled and a system clock year below 2020 at
\* startup, the worker never enters the per-minute loop body, never calls
\* prepare_minute and never enables the output.
C6_OldClockSkipsLoop ==
  (PastStartup /\ ClockYearTooOld)
    => /\ pc \notin MinuteBody
       /\ prepCalls = 0
       /\ OutputInput
       /\ (pc = "loop" => threadRun = 0)

C6_Witness ==
  PastStartup /\ ClockYearTooOld /\ pc = "exited" /\ ~sigHandled

\* C7: a minute whose schedule entry is false is skipped: the output is
\* disabled, the worker sleeps to the absolute start of the next minute
\* and then tests the schedule again; prepare_minute is called and the
\* output enabled only for minutes whose entry is true.
C7_DisabledMinuteSkipped ==
  /\ [][(pc = "loop" /\ pc' # pc /\ threadRun = 1
         /\ minuteOfDay' \in 0..(MINUTES_IN_DAY - 1)
         /\ minuteOfDay' \notin threadData.runSchedule)
          => /\ pc' = "skip_wait"
             /\ Fsel4(gpfsel0') = 0
             /\ targetWait' = Instant(minuteStart + 60, 0)
             /\ prepCalls' = prepCalls]_vars
  /\ [][(pc = "skip_wait" /\ pc' # pc)
          => /\ pc' = "loop"
             /\ Fsel4(gpfsel0') = 0
             /\ prepCalls' = prepCalls
             /\ (threadRun' = 1 => now' = targetWait)]_vars
  /\ [][(prepCalls' # prepCalls
         \/ (Fsel4(gpfsel0') = GPIO_FSEL_ALT0 /\ ~optCarrierOnly))
          => (minuteOfDay' \in threadData.runSchedule
              \/ minuteOfDay' \notin 0..(MINUTES_IN_DAY - 1)
              \/ pc' \notin MinuteBody)]_vars

\* a minute was transmitted and the next one skipped
C7_Witness ==
  pc = "loop" /\ threadRun = 1 /\ prepCalls = 1 /\ LoopIterations = 2
  /\ minuteOfDay \notin threadData.runSchedule

\* the gate polarity at the start of the modulation
StartPolarity == IF threadData.timeService = "JJY" THEN GPIO_FSEL_ALT0 ELSE 0
EndPolarity   == IF threadData.timeService = "JJY" THEN 0 ELSE GPIO_FSEL_ALT0

\* C8: a second of a transmitted minute is: sleep to minuteStart + second,
\* gate to the modulation-start polarity (on for JJY, off for the others),
\* sleep to minuteStart + second + modulation ms, gate to the opposite
\* polarity; both sleep targets are computed from minuteStart.
C8_SecondSequence ==
  /\ [][pc' \in {"wait_start", "flip1"}
          => targetWait' = Instant(minuteStart' + second', 0)]_vars
  /\ [][pc' \in {"wait_mod", "flip2"}
          => /\ targetWait' = Instant(minuteStart' + second', modulation')
             /\ Fsel4(gpfsel0') = StartPolarity]_vars
  /\ [][(pc = "wait_start" /\ pc' # pc)
          => (pc' = "flip1" /\ gpfsel0' = gpfsel0
              /\ (~sigHandled' => now' = SleepUntil(now, targetWait)))]_vars
  /\ [][(pc = "flip1" /\ pc' # pc)
          => (pc' = "wait_mod" /\ Fsel4(gpfsel0') = StartPolarity)]_vars
  /\ [][(pc = "wait_mod" /\ pc' # pc)
          => (pc' = "flip2" /\ gpfsel0' = gpfsel0
              /\ (~sigHandled' => now' = SleepUntil(now, targetWait)))]_vars
  /\ [][(pc = "flip2" /\ pc' # pc)
          => (pc' = "sec_check" /\ Fsel4(gpfsel0') = EndPolarity
              /\ second' = second + 1)]_vars

\* second 30 of a JJY minute, inside the modulation with the carrier on
C8_Witness ==
  /\ pc = "flip2" /\ second = 30 /\ ~sigHandled
  /\ threadData.timeService = "JJY"
  /\ OutputEnabled /\ now = targetWait /\ modulation > 0

\* C9: once the run flag is cleared the worker issues at most one more pair
\* of gate flips and goes to shutdown without waiting for a minute boundary:
\* a sleep of the skip branch that ends with the flag cleared has lasted no
\* longer than a second.
C9_StopsWithinASecond ==
  /\ [][flipsAfterStop' <= 2]_vars
  /\ [][(pc = "skip_wait" /\ pc' # pc /\ threadRun = 0)
          => now'.sec - now.sec <= 1]_vars

\* C10: for DCF77 the modulation of second 59 is 0 and that of a second
\* s in 0..58 is 200 when payload bit s is set and 100 otherwise.
C10_DCF77Modulation ==
  (threadData.timeService = "DCF77" /\ pc # "sec_check")
    => /\ pc = "wait_start"
       /\ modulation = IF second = 59 THEN 0
                       ELSE IF second \in minuteBits THEN 200 ELSE 100

C10_Witness ==
  /\ threadData.timeService = "DCF77" /\ pc = "wait_start"
  /\ second = 17 /\ 17 \in minuteBits /\ 16 \notin minuteBits
  /\ modulation = 200

\* the seconds of the position markers of JJY and WWVB
MarkerSeconds == {0, 9, 19, 29, 39, 49, 59}

\* get_modulation_for_second has returned for the service
ModulationReturned(service) ==
  threadData.timeService = service /\ pc # "sec_check"

\* C11: for JJY the modulation of a marker second is 200 whatever the
\* payload, and that of any other second s is 500 when payload bit 59 - s
\* is set and 800 otherwise.
C11_JJYModulation ==
  ModulationReturned("JJY")
    => /\ pc = "wait_start"
       /\ modulation = IF second \in MarkerSeconds THEN 200
                       ELSE IF (59 - second) \in minuteBits THEN 500 ELSE 800

\* second 19 is a marker although its payload bit is set
C11_Witness ==
  /\ ModulationReturned("JJY") /\ second = 19
  /\ 40 \in minuteBits /\ modulation = 200

\* C12: for MSF the modulation of second 0 is 500 and that of a second s in
\* 1..59 is 100, plus 100 when payload bit 59 - s is set, plus 100 when
\* 52 < s < 59; the value is one of 100, 200, 300, 500.
C12_MSFModulation ==
  ModulationReturned("MSF")
    => /\ pc = "wait_start"
       /\ modulation \in {100, 200, 300, 500}
       /\ modulation =
            IF second = 0 THEN 500
            ELSE 100
                 + (IF (59 - second) \in minuteBits THEN 100 ELSE 0)
                 + (IF 52 < second /\ second < 59 THEN 100 ELSE 0)

\* second 55, inside the window, with its payload bit set
C12_Witness ==
  /\ ModulationReturned("MSF") /\ second = 55
  /\ 4 \in minuteBits /\ modulation = 300

\* C13: for WWVB the modulation of a marker second is 800 whatever the
\* payload, and that of any other second s is 500 when payload bit 59 - s
\* is set and 200 otherwise.
C13_WWVBModulation ==
  ModulationReturned("WWVB")
    => /\ pc = "wait_start"
       /\ modulation = IF second \in MarkerSeconds THEN 800
                       ELSE IF (59 - second) \in minuteBits THEN 500 ELSE 200

\* second 29 is a marker although its payload bit is set
C13_Witness ==
  /\ ModulationReturned("WWVB") /\ second = 29
  /\ 30 \in minuteBits /\ modulation = 800

\* the bit a receiver reads from the modulation m of second s, -1 for a
\* marker
ReceivedBit(service, m, s) ==
  CASE service = "DCF77" -> IF m = 200 THEN 1 ELSE IF m = 100 THEN 0 ELSE -1
    [] service = "JJY"   -> IF m = 500 THEN 1 ELSE IF m = 800 THEN 0 ELSE -1
    [] service = "WWVB"  -> IF m = 500 THEN 1 ELSE IF m = 200 THEN 0 ELSE -1
    [] service = "MSF"   ->
         IF m = 500 THEN -1
         ELSE IF 52 < s /\ s < 59 THEN (m - 200) \div 100
         ELSE (m - 100) \div 100

\* the 60 bits received over the minute prepared last
ReceivedFrame ==
  [s \in 0..59 |->
     ReceivedBit(threadData.timeService,
                 get_modulation_for_second(threadData.timeService,
                                           minuteBits, s), s)]

\* the value of a field given as <<second, weight>> pairs
RECURSIVE FieldValue(_, _)
FieldValue(frame, layout) ==
  IF layout = <<>> THEN 0
  ELSE frame[Head(layout)[1]] * Head(layout)[2]
       + FieldValue(frame, Tail(layout))

\* field layouts of the four services, by second of the minute
DCF77Layout ==
  [minute |-> <<<<21, 1>>, <<22, 2>>, <<23, 4>>, <<24, 8>>, <<25, 10>>,
                <<26, 20>>, <<27, 40>>>>,
   hour   |-> <<<<29, 1>>, <<30, 2>>, <<31, 4>>, <<32, 8>>, <<33, 10>>,
                <<34, 20>>>>,
   day    |-> <<<<36, 1>>, <<37, 2>>, <<38, 4>>, <<39, 8>>, <<40, 10>>,
                <<41, 20>>>>,
   wday   |-> <<<<42, 1>>, <<43, 2>>, <<44, 4>>>>,
   month  |-> <<<<45, 1>>, <<46, 2>>, <<47, 4>>, <<48, 8>>, <<49, 10>>>>,
   year   |-> <<<<50, 1>>, <<51, 2>>, <<52, 4>>, <<53, 8>>, <<54, 10>>,
                <<55, 20>>, <<56, 40>>, <<57, 80>>>>,
   flags  |-> <<17, 18, 20>>]

JJYLayout ==
  [minute |-> <<<<1, 40>>, <<2, 20>>, <<3, 10>>, <<5, 8>>, <<6, 4>>,
                <<7, 2>>, <<8, 1>>>>,
   hour   |-> <<<<12, 20>>, <<13, 10>>, <<15, 8>>, <<16, 4>>, <<17, 2>>,
                <<18, 1>>>>,
   day    |-> <<<<22, 200>>, <<23, 100>>, <<25, 80>>, <<26, 40>>, <<27, 20>>,
                <<28, 10>>, <<30, 8>>, <<31, 4>>, <<32, 2>>, <<33, 1>>>>,
   wday   |-> <<<<50, 4>>, <<51, 2>>, <<52, 1>>>>,
   month  |-> <<>>,
   year   |-> <<<<41, 80>>, <<42, 40>>, <<43, 20>>, <<44, 10>>, <<45, 8>>,
                <<46, 4>>, <<47, 2>>, <<48, 1>>>>,
   flags  |-> <<>>]

MSFLayout ==
  [minute |-> <<<<45, 40>>, <<46, 20>>, <<47, 10>>, <<48, 8>>, <<49, 4>>,
                <<50, 2>>, <<51, 1>>>>,
   hour   |-> <<<<39, 20>>, <<40, 10>>, <<41, 8>>, <<42, 4>>, <<43, 2>>,
                <<44, 1>>>>,
   day    |-> <<<<30, 20>>, <<31, 10>>, <<32, 8>>, <<33, 4>>, <<34, 2>>,
                <<35, 1>>>>,
   wday   |-> <<<<36, 4>>, <<37, 2>>, <<38, 1>>>>,
   month  |-> <<<<25, 10>>, <<26, 8>>, <<27, 4>>, <<28, 2>>, <<29, 1>>>>,
   year   |-> <<<<17, 80>>, <<18, 40>>, <<19, 20>>, <<20, 10>>, <<21, 8>>,
                <<22, 4>>, <<23, 2>>, <<24, 1>>>>,
   flags  |-> <<58>>]

WWVBLayout ==
  [minute |-> JJYLayout.minute,
   hour   |-> JJYLayout.hour,
   day    |-> JJYLayout.day,
   wday   |-> <<>>,
   month  |-> <<>>,
   year   |-> <<<<45, 80>>, <<46, 40>>, <<47, 20>>, <<48, 10>>, <<50, 8>>,
                <<51, 4>>, <<52, 2>>, <<53, 1>>>>,
   flags  |-> <<55, 57, 58>>]

LayoutOf(service) ==
  CASE service = "DCF77" -> DCF77Layout
    [] service = "JJY"   -> JJYLayout
    [] service = "MSF"   -> MSFLayout
    [] service = "WWVB"  -> WWVBLayout

\* the fields read back from the received frame
DecodedFields ==
  LET l == LayoutOf(threadData.timeService)
      f == ReceivedFrame
  IN  [minute |-> FieldValue(f, l.minute),
       hour   |-> FieldValue(f, l.hour),
       day    |-> FieldValue(f, l.day),
       wday   |-> FieldValue(f, l.wday),
       month  |-> FieldValue(f, l.month),
       year   |-> FieldValue(f, l.year),
       flags  |-> [i \in 1..Len(l.flags) |-> f[l.flags[i]]]]

\* the instant prepare_minute was last called for
TargetInstant == prepFor + MinuteOffset * 60

\* the fields each service carries for its transmitted minute: the minute
\* after the target in local time (DCF77, MSF), the target's minute in
\* local time (JJY) and in UTC (WWVB)
CarriedFields ==
  LET sv   == threadData.timeService
      t    == IF sv \in {"DCF77", "MSF"} THEN TargetInstant + 60
              ELSE TargetInstant
      tm   == IF sv = "WWVB" THEN gmtime_r(t) ELSE localtime_r(zone, t)
      dst  == IF ZoneDst(zone, t) THEN 1 ELSE 0
      dst1 == IF ZoneDst(zone, t + 86400) THEN 1 ELSE 0
      yr   == tm.tm_year + 1900
      leap == IF yr % 4 = 0 /\ (yr % 100 # 0 \/ yr % 400 = 0) THEN 1 ELSE 0
  IN  [minute |-> tm.tm_min,
       hour   |-> tm.tm_hour,
       day    |-> IF sv \in {"JJY", "WWVB"} THEN tm.tm_yday + 1
                  ELSE tm.tm_mday,
       wday   |-> CASE sv = "DCF77" -> IF tm.tm_wday = 0 THEN 7
                                       ELSE tm.tm_wday
                    [] sv = "WWVB"  -> 0
                    [] OTHER        -> tm.tm_wday,
       month  |-> IF sv \in {"DCF77", "MSF"} THEN tm.tm_mon + 1 ELSE 0,
       year   |-> yr % 100,
       flags  |-> CASE sv = "DCF77" -> <<dst, 1 - dst, 1>>
                    [] sv = "MSF"   -> <<dst>>
                    [] sv = "WWVB"  -> <<leap, dst1, dst>>
                    [] OTHER        -> <<>>]

\* prepare_minute has returned a payload for a recognised service
MinutePrepared ==
  /\ threadData.timeService \in Services
  /\ prepCalls > 0
  /\ pc \in {"sec_check", "wait_start"}

\* C14: reading the 60 modulation values of a prepared minute back into
\* bits and undoing the BCD packing at the service's field positions gives
\* the minute, hour, day or day of year, month, 2-digit year, weekday and
\* flags of the transmitted minute: the minute after the target for DCF77
\* and MSF, the target's own minute for JJY and WWVB.
C14_RoundTrip ==
  MinutePrepared => DecodedFields = CarriedFields

\* JJY in Japan on day 366 of 2024 at 23:59, the padded digits all in use
C14_Witness ==
  /\ MinutePrepared /\ threadData.timeService = "JJY"
  /\ DecodedFields.day = 366 /\ DecodedFields.hour = 23
  /\ DecodedFields.minute = 59 /\ DecodedFields.year = 24

\* the number of ones of the payload in bits lo..hi and in the single bit p
OnesIn(lo, hi, p) == Cardinality(minuteBits \cap ((lo..hi) \cup {p}))

\* C15: in every prepared payload the three DCF77 groups 21..28, 29..35 and
\* 36..58 hold an even number of ones; JJY's PA1 with the hour bits and PA2
\* with the minute bits hold an even number of ones; each MSF parity bit
\* with the field it covers (year, month and day, weekday, hour and minute)
\* holds an odd number of ones.
C15_ParityBits ==
  MinutePrepared =>
    CASE threadData.timeService = "DCF77" ->
           /\ OnesIn(21, 27, 28) % 2 = 0
           /\ OnesIn(29, 34, 35) % 2 = 0
           /\ OnesIn(36, 57, 58) % 2 = 0
      [] threadData.timeService = "JJY" ->
           /\ OnesIn(59 - 18, 59 - 12, 59 - 36) % 2 = 0
           /\ OnesIn(59 - 8, 59 - 1, 59 - 37) % 2 = 0
      [] threadData.timeService = "MSF" ->
           /\ OnesIn(59 - 24, 59 - 17, 59 - 54) % 2 = 1
           /\ OnesIn(59 - 35, 59 - 25, 59 - 55) % 2 = 1
           /\ OnesIn(59 - 38, 59 - 36, 59 - 56) % 2 = 1
           /\ OnesIn(59 - 51, 59 - 39, 59 - 57) % 2 = 1
      [] OTHER -> TRUE

\* an MSF payload with P1 set and P2 clear
C15_Witness ==
  /\ MinutePrepared /\ threadData.timeService = "MSF"
  /\ (59 - 54) \in minuteBits /\ (59 - 55) \notin minuteBits

\* an entry START:LEN with 0 <= START < 24 and 0 <= LEN <= 1440
EntryInRange(e) ==
  /\ 0 <= e.start /\ e.start < 24 * 1000
  /\ 0 <= e.len /\ e.len <= 1440

\* the minutes (round(START * 60) + i) mod 1440, 0 <= i < LEN, of the
\* entries in range
CoveredMinutes(entries) ==
  UNION {{(LRound(entries[k].start * 60, 1000) + i) % 1440 :
            i \in 0..(entries[k].len - 1)} :
         k \in {j \in 1..Len(entries) : EntryInRange(entries[j])}}

\* C16: the mask get_periodic_schedule produces holds exactly the minutes
\* covered by the entries with 0 <= START < 24 and 0 <= LEN <= 1440,
\* whatever it held before and however often the expression is applied,
\* with coverage past minute 1439 continuing at minute 0.
C16_ScheduleMask ==
  mainPc = "schedule_set"
    => threadData.runSchedule = CoveredMinutes(optSchedule.entries)

\* positions of the shutdown code and the end of the thread
ShutdownPositions == {"stopping", "stop_enab", "stop_busy", "stop_off",
                      "exited"}

\* C17: prepare_minute returns the all-ones sentinel and
\* get_modulation_for_second a negative value exactly for a service
\* outside DCF77, JJY, MSF, WWVB; on either error the worker clears the run
\* flag and goes to the shutdown code without a further gate flip, and
\* ends with the output disabled and the clock stopped.
C17_EncodingErrorStops ==
  /\ [][(pc = "prepare" /\ pc' # pc)
          => /\ (minuteBits' = AllOnes)
                  <=> (threadData.timeService \notin Services)
             /\ (minuteBits' = AllOnes)
                  => (threadRun' = 0 /\ pc' = "stopping"
                      /\ gpfsel0' = gpfsel0)
             /\ (minuteBits' # AllOnes) => pc' = "sec_check"]_vars
  /\ [][(pc = "sec_check" /\ second < 60 /\ threadRun = 1 /\ pc' # pc)
          => /\ (modulation' < 0)
                  <=> (threadData.timeService \notin Services)
             /\ (modulation' < 0)
                  => (threadRun' = 0 /\ pc' = "stopping"
                      /\ gpfsel0' = gpfsel0)
             /\ (modulation' >= 0) => pc' = "wait_start"]_vars
  /\ [][(threadData.timeService \notin Services /\ pc \in ShutdownPositions)
          => /\ pc' \in ShutdownPositions
             /\ threadRun' = 0
             /\ Fsel4(gpfsel0') = 0
             /\ flipsAfterStop' = flipsAfterStop
             /\ prepCalls' = prepCalls
             /\ (pc' = "exited" => ~CtlEnab(clkCtl'))]_vars

\* the thread has ended after prepare_minute returned the sentinel while
\* the carrier was on
C17_Witness ==
  /\ pc = "exited" /\ threadData.timeService \notin Services
  /\ prepCalls = 1 /\ minuteBits = AllOnes /\ threadRun = 0
  /\ OutputInput /\ ~CtlEnab(clkCtl) /\ ~CtlBusy(clkCtl)

\* positions that only thread_time_signal has
TimeSignalPositions == MinuteBody \cup {"init_off", "loop"}

\* C18: in carrier-only mode the worker never calls prepare_minute or
\* get_modulation_for_second and never reads the schedule; after start_clock
\* succeeded the output is enabled once, stays enabled with the clock
\* running and no gate flip until the run flag is cleared, and the thread
\* ends with the output disabled and the clock stopped.
C18_CarrierOnly ==
  /\ [](optCarrierOnly
          => /\ pc \notin TimeSignalPositions
             /\ prepCalls = 0 /\ prepFor = -1 /\ flipsAfterStop = 0
             /\ (pc = "carrier_loop" => OutputEnabled /\ CtlEnab(clkCtl))
             /\ (pc = "exited" /\ stopRet = "exited"
                    => OutputInput /\ ~CtlEnab(clkCtl)))
  /\ [][optCarrierOnly
          => /\ (pc = "set_enab" => pc' \in {"set_enab", "carrier_on"})
             /\ (pc = "carrier_on" /\ pc' # pc
                    => pc' = "carrier_loop" /\ OutputEnabled')
             /\ (pc = "carrier_loop"
                    => /\ gpfsel0' = gpfsel0 /\ clkCtl' = clkCtl
                       /\ (pc' # pc => threadRun = 0 /\ pc' = "stopping"))
             /\ (~OutputEnabled /\ OutputEnabled' => pc = "carrier_on")
             /\ (pc \in ShutdownPositions /\ stopRet' = "exited"
                    => ~OutputEnabled')]_vars

\* the carrier-only thread has ended after a signal, having held the carrier
\* on; the encoder was never called
C18_Witness ==
  /\ optCarrierOnly /\ pc = "exited" /\ stopRet = "exited"
  /\ sigHandled /\ threadRun = 0 /\ prepCalls = 0
  /\ OutputInput /\ ~CtlEnab(clkCtl)

\* the worker's own "_threadRun = 0" branches: gpio_init or start_clock
\* failed, the sanity check failed, or the encoder reported an error
FailurePaths == {"gpio_failed", "clock_failed", "sanity_failed",
                 "encode_failed"}

WorkerGivesUp == exitPath' \in FailurePaths /\ exitPath' # exitPath

\* C19 as stated: once the worker thread is running, only the signal
\* handler changes the termination flag; the worker never writes it.
C19_OnlySignalWritesFlag ==
  [][(WorkerAlive /\ threadRun' # threadRun)
       => (Signal \/ SignalInterrupt)]_vars

\* C19 amended: once the worker thread is running the termination flag is
\* only ever cleared, never set; it is cleared by the signal handler and by
\* the worker itself on its failure branches, and every other step of the
\* worker leaves it as it is.
C19_FlagOnlyCleared ==
  [][(WorkerAlive /\ threadRun' # threadRun)
       => /\ threadRun = 1 /\ threadRun' = 0
          /\ (Signal \/ SignalInterrupt \/ WorkerGivesUp)]_vars

\* the worker is still running after it cleared the flag itself on a failed
\* sanity check, and no signal was ever delivered
C19_Witness ==
  /\ WorkerAlive /\ exitPath = "sanity_failed"
  /\ threadRun = 0 /\ ~sigHandled

\* C20: every candidate that passes the suitability test of start_clock has
\* an integer divider in 2..4095 and a fractional divider in 0..1023, and so
\* has the divider word that start_clock writes to CLK_GP0DIV.
C20_DividerInRange ==
  /\ [](\A j \in 1..NumSources :
          ~NotSuitable(clkRate[j], RequestedFrequency)
            => /\ TestDivI(clkRate[j], RequestedFrequency) \in DivMin..DivMax
               /\ TestDivF(clkRate[j], RequestedFrequency)
                    \in 0..(DivFracSteps - 1))
  /\ [][(pc = "write_div" /\ pc' # pc)
          => /\ clkDiv' = DivWord(best.divI, best.divF)
             /\ DivI(clkDiv') \in DivMin..DivMax
             /\ DivF(clkDiv') \in 0..(DivFracSteps - 1)]_vars

\* start_clock has written the divider 2 + 1023/1024, the smallest integer
\* part with the largest fractional part
C20_Witness ==
  /\ pc = "init_off" /\ best.idx \in 1..NumSources
  /\ clkDiv = DivWord(best.divI, best.divF)
  /\ DivI(clkDiv) = DivMin /\ DivF(clkDiv) = DivFracSteps - 1

\* (division - divI) * 1024 rounded to the nearest integer
NearestDivF(S, f) == (2 * (S % f) * DivFracSteps + f) \div (2 * f)

\* C21: the fractional divider of the selected source is
\* round((division - divI) * 1024); for 77500 Hz from 19 200 000 Hz the
\* integer divider is 247 and the achieved frequency is within 0.1 Hz of the
\* request.
C21_DivFRounded ==
  (SearchDone /\ best.idx \in 1..NumSources)
    => /\ best.divF = NearestDivF(best.srcFreq, RequestedFrequency)
       /\ (RequestedFrequency = 77500 /\ best.srcFreq = 19200000)
            => /\ best.divI = 247
               /\ 10 * ErrorNum(best.srcFreq, RequestedFrequency,
                                best.divI, best.divF)
                    <= ErrorDen(best.divI, best.divF)

\* positions of start_clock after the source search, in program order
StartClockOrder == <<"stop_enab", "stop_busy", "stop_off", "write_div",
                     "write_ctl", "set_enab">>

InStartClock == stopRet = "write_div" /\ \E k \in 1..6 : pc = StartClockOrder[k]

\* C22: start_clock clears ENAB, waits for BUSY to read clear, writes the
\* divisor, writes the control word with MASH 1, the chosen source and ENAB
\* clear, then sets ENAB; the divisor and the source and MASH fields are
\* written only while BUSY and ENAB are both clear.
C22_ProgrammingOrder ==
  /\ [][(InStartClock /\ pc' # pc)
          => /\ \/ \E k \in 1..5 : (pc = StartClockOrder[k]
                                       /\ pc' = StartClockOrder[k + 1])
                \/ (pc = "set_enab" /\ pc' \in {"init_off", "carrier_on"})
             /\ (pc = "stop_enab" => ~CtlEnab(clkCtl'))
             /\ (pc = "stop_busy" => ~CtlBusy(clkCtl) /\ ~CtlEnab(clkCtl))
             /\ (pc = "write_div"
                   => clkDiv' = DivWord(best.divI, best.divF))
             /\ (pc = "write_ctl"
                   => /\ CtlMash(clkCtl') = 1
                      /\ CtlSrc(clkCtl') = ClockSources[best.idx].clockSource
                      /\ ~CtlEnab(clkCtl'))
             /\ (pc = "set_enab"
                   => /\ CtlEnab(clkCtl')
                      /\ CtlMash(clkCtl') = CtlMash(clkCtl)
                      /\ CtlSrc(clkCtl') = CtlSrc(clkCtl))]_vars
  /\ [][(clkDiv' # clkDiv \/ CtlSrc(clkCtl') # CtlSrc(clkCtl)
          \/ CtlMash(clkCtl') # CtlMash(clkCtl))
          => /\ pc \in {"write_div", "write_ctl"}
             /\ ~CtlBusy(clkCtl) /\ ~CtlEnab(clkCtl)]_vars

\* the divisor has been written and the control word still names the source
\* of the generator that was running before, now stopped and not busy
C22_Witness ==
  /\ pc = "write_ctl" /\ best.idx = 1
  /\ clkDiv = DivWord(best.divI, best.divF)
  /\ clkCtl = CLK_CTL_MASH1 + 6

(***************************************************************************)
(* The shutdown code under fair scheduling of the worker thread: a step of *)
(* lines 639-641 and of stop_clock that can be taken is taken; nothing     *)
(* obliges the generator to drop BUSY                                      *)
(***************************************************************************)
ShutdownStep ==
  \/ W_Stopping
  \/ StopClockEnab
  \/ StopClockBusy
  \/ StopClockOff

SpecFailLive == SpecFail /\ WF_vars(ShutdownStep)

LocalMinuteOfDay(t) == ((t + ZoneOff(zone, t)) % SECONDS_IN_DAY) \div 60

\* C24: in every iteration of the per-minute loop the schedule index
\* minuteOfDay lies in 0..1439 and is the host-local minute of the day of
\* minuteStart, whatever the hour offset and the service.
C24_MinuteOfDayInRange ==
  [][(pc = "loop" /\ threadRun = 1 /\ pc' # pc)
       => /\ minuteOfDay' \in 0..(MINUTES_IN_DAY - 1)
          /\ minuteOfDay' = LocalMinuteOfDay(minuteStart)]_vars

\* the absolute start of the second that follows the one last transmitted
NextSecondStart == IF pc = "loop" THEN minuteStart ELSE minuteStart + second

\* C25: after the complementary flip of a transmitted second the gate keeps
\* that polarity until the absolute start of the next second, while no
\* termination was requested; also after second 59 when the next minute is
\* disabled by the schedule.
C25_PolarityHeldToSecondEnd ==
  [][(/\ pc \in {"sec_check", "wait_start", "flip1", "loop"}
      /\ prepCalls > 0 /\ threadRun = 1
      /\ (pc = "sec_check" => second > 0)
      /\ OutputEnabled' # OutputEnabled)
       => ~Before(now, Instant(NextSecondStart, 0))]_vars

\* C26: prepare_minute is called once for every transmitted minute, for the
\* instant minuteStart + 60 * round(hourOffset * 60), and its payload is the
\* one every second of that minute is modulated from; minuteStart is a whole
\* multiple of 60 and advances by exactly 60 per loop iteration, transmitted
\* or skipped.
C26_OnePayloadPerMinute ==
  /\ [](minuteStart % 60 = 0)
  /\ [][(pc = "prepare" /\ pc' # pc)
          => /\ minuteBits'
                  = prepare_minute(threadData.timeService, zone,
                      minuteStart
                        + 60 * LRound(threadData.hourOffset * 60, 1000))
             /\ prepCalls' = prepCalls + 1
             /\ prepFor' = minuteStart]_vars
  /\ [][(pc' = "prepare" /\ pc # "prepare") => pc = "loop"]_vars
  /\ [][(minuteBits' # minuteBits \/ prepCalls' # prepCalls)
          => pc = "prepare"]_vars
  /\ [][(pc = "sec_check" /\ pc' = "wait_start")
          => /\ prepFor = minuteStart
             /\ modulation' = get_modulation_for_second(
                                threadData.timeService, minuteBits, second)
        ]_vars
  /\ [][(pc # "init_off" /\ minuteStart' # minuteStart)
          => minuteStart' = minuteStart + 60]_vars
  /\ [][(pc' = "loop" /\ pc = "sec_check") \/ (pc = "loop" /\ pc' = "skip_wait")
          => minuteStart' = minuteStart + 60]_vars

\* a minute was transmitted whole with an hour offset of one and a half
\* minutes, and the loop is back at its head
C26_Witness ==
  /\ pc = "loop" /\ second = 60 /\ prepCalls = 1
  /\ threadData.hourOffset = 25
  /\ minuteStart = prepFor + 60

\* C27: once a SIGINT or SIGTERM has been handled the run flag is 0 from
\* then on, also when the signal came before main set the flag and created
\* the worker thread.
C27_TerminationNotLost == sigHandled => threadRun = 0

\* C28: the modulation-start flip of second s is not issued before the
\* instant minuteStart + s, nor the complementary flip before minuteStart + s
\* plus the modulation time, also when a signal interrupts one of the waits.
C28_FlipsNotEarly ==
  /\ [][(pc = "flip1" /\ pc' # pc)
          => ~Before(now, Instant(minuteStart + second, 0))]_vars
  /\ [][(pc = "flip2" /\ pc' # pc)
          => ~Before(now, Instant(minuteStart + second, modulation))]_vars

\* C29: the flips of second s of a minute are issued within the interval
\* from minuteStart + s up to, not including, minuteStart + s + 1, so a
\* worker that starts partway through a minute issues none for the seconds
\* already gone.
C29_FlipsWithinOwnSecond ==
  [][(pc \in {"flip1", "flip2"} /\ pc' # pc)
       => /\ ~Before(now, Instant(minuteStart + second, 0))
          /\ Before(now, Instant(minuteStart + second + 1, 0))]_vars

\* the first stop_clock call of the program (start_clock, line 398) has
\* returned
FirstStopDone ==
  /\ pc \notin {"idle", "gpio_init", "start_clock"}
  /\ exitPath \notin {"gpio_failed", "clock_failed"}
  /\ ~(stopRet = "write_div" /\ pc \in {"stop_enab", "stop_busy", "stop_off"})

\* C30: after the first stop_clock call the function select of GPIO4 is
\* input (000) or ALT0 (100), so every enable_clock_output(true) leaves
\* exactly ALT0; no call changes the function select of another pin.
C30_Gpio4InputOrAlt0 ==
  /\ [](FirstStopDone => Fsel4(gpfsel0) \in {0, GPIO_FSEL_ALT0})
  /\ [][(FirstStopDone /\ Fsel4(gpfsel0') # Fsel4(gpfsel0)
          /\ Fsel4(gpfsel0') # 0) => OutputEnabled']_vars
  /\ [][(pc = "carrier_on" /\ pc' # pc) => OutputEnabled']_vars
  /\ [][OtherPins(gpfsel0') = OtherPins(gpfsel0)]_vars

\* the carrier is on GPIO4 after start_clock reprogrammed the divider, and
\* the function selects of pins 3 and 5 are as they were found
C30_Witness ==
  /\ pc = "carrier_loop" /\ OutputEnabled
  /\ OtherPins(gpfsel0) = 512 + GPIO_FSEL_ALT0 * 32768
  /\ clkDiv # DivWord(100, 0)

====
